---- MODULE Spec2Model ----
(***************************************************************************)
(* The Straico client of aichat: the prompt formats and the renderer of    *)
(* src/client/prompt_format.rs and the adapter of src/client/straico.rs.   *)
(*                                                                         *)
(* Strings are TLA+ strings (sequences of characters): \o concatenates,    *)
(* Len and SubSeq work on them, so substring containment is computed.      *)
(***************************************************************************)
EXTENDS Integers, Sequences, FiniteSets, TLC

VARIABLES pc, op, args, result, res, calls, sink

vars == <<pc, op, args, result, res, calls, sink>>

(***************************************************************************)
(* Result values: anyhow::Result<T>.  An error is the message of bail! or  *)
(* anyhow! with the value interpolated in it kept beside it.               *)
(***************************************************************************)
Ok(v) == [ok |-> TRUE, value |-> v]

Bail(msg, arg) == [ok |-> FALSE, msg |-> msg, arg |-> arg]

NoneV == [some |-> FALSE]

Some(v) == [some |-> TRUE, v |-> v]

(***************************************************************************)
(* prompt_format.rs: the catalog.                                          *)
(***************************************************************************)
GENERIC_PROMPT_FORMAT ==
    [begin |-> "",
     system_pre_message |-> "",
     system_post_message |-> "\n",
     user_pre_message |-> "### Instruction:\n",
     user_post_message |-> "\n",
     assistant_pre_message |-> "### Response:\n",
     assistant_post_message |-> "\n",
     end |-> "### Response:\n"]

ANTHROPIC_PROMPT_FORMAT ==
    [begin |-> "",
     system_pre_message |-> "",
     system_post_message |-> "\n",
     user_pre_message |-> "\nHuman: ",
     user_post_message |-> "\n",
     assistant_pre_message |-> "\nAssistant: ",
     assistant_post_message |-> "\n",
     end |-> "\nAssistant:"]

MISTRAL_PROMPT_FORMAT ==
    [begin |-> "",
     system_pre_message |-> "[INST] <<SYS>>",
     system_post_message |-> "<</SYS>> [/INST]",
     user_pre_message |-> "[INST]",
     user_post_message |-> "[/INST]",
     assistant_pre_message |-> "",
     assistant_post_message |-> "",
     end |-> ""]

LLAMA3_PROMPT_FORMAT ==
    [begin |-> "<|begin_of_text|>",
     system_pre_message |-> "<|start_header_id|>system<|end_header_id|>\n\n",
     system_post_message |-> "<|eot_id|>",
     user_pre_message |-> "<|start_header_id|>user<|end_header_id|>\n\n",
     user_post_message |-> "<|eot_id|>",
     assistant_pre_message |-> "<|start_header_id|>assistant<|end_header_id|>\n\n",
     assistant_post_message |-> "<|eot_id|>",
     end |-> "<|start_header_id|>assistant<|end_header_id|>\n\n"]

PHI3_PROMPT_FORMAT ==
    [begin |-> "",
     system_pre_message |-> "<|system|>\n",
     system_post_message |-> "<|end|>\n",
     user_pre_message |-> "<|user|>\n",
     user_post_message |-> "<|end|>\n",
     assistant_pre_message |-> "<|assistant|>\n",
     assistant_post_message |-> "<|end|>\n",
     end |-> "<|assistant|>\n"]

COMMAND_R_PROMPT_FORMAT ==
    [begin |-> "",
     system_pre_message |-> "<|START_OF_TURN_TOKEN|><|SYSTEM_TOKEN|>",
     system_post_message |-> "<|END_OF_TURN_TOKEN|>",
     user_pre_message |-> "<|START_OF_TURN_TOKEN|><|USER_TOKEN|>",
     user_post_message |-> "<|END_OF_TURN_TOKEN|>",
     assistant_pre_message |-> "<|START_OF_TURN_TOKEN|><|CHATBOT_TOKEN|>",
     assistant_post_message |-> "<|END_OF_TURN_TOKEN|>",
     end |-> "<|START_OF_TURN_TOKEN|><|CHATBOT_TOKEN|>"]

QWEN_PROMPT_FORMAT ==
    [begin |-> "",
     system_pre_message |-> "<|im_start|>system\n",
     system_post_message |-> "<|im_end|>",
     user_pre_message |-> "<|im_start|>user\n",
     user_post_message |-> "<|im_end|>",
     assistant_pre_message |-> "<|im_start|>assistant\n",
     assistant_post_message |-> "<|im_end|>",
     end |-> "<|im_start|>assistant\n"]

Catalog ==
    {GENERIC_PROMPT_FORMAT, ANTHROPIC_PROMPT_FORMAT, MISTRAL_PROMPT_FORMAT,
     LLAMA3_PROMPT_FORMAT, PHI3_PROMPT_FORMAT, COMMAND_R_PROMPT_FORMAT,
     QWEN_PROMPT_FORMAT}

(***************************************************************************)
(* message.rs shapes as prompt_format.rs matches on them.                  *)
(***************************************************************************)
MessageRole == {"System", "Assistant", "User"}

TextContent(text) == [kind |-> "Text", text |-> text]

ArrayContent(list) == [kind |-> "Array", list |-> list]

ToolResultsContent == [kind |-> "ToolResults"]

TextPart(text) == [kind |-> "Text", text |-> text]

ImageUrlPart(url) == [kind |-> "ImageUrl", url |-> url]

Message(role, content) == [role |-> role, content |-> content]

(***************************************************************************)
(* generate_prompt, as the code computes it: one pass over the messages    *)
(* that accumulates prompt and image_urls, the decision after the pass.    *)
(***************************************************************************)
RECURSIVE join(_, _)
\* parts.join(sep) of a Vec<String>
join(parts, sep) ==
    IF Len(parts) = 0 THEN ""
    ELSE IF Len(parts) = 1 THEN parts[1]
    ELSE parts[1] \o sep \o join(Tail(parts), sep)

RECURSIVE array_pass(_, _, _, _)
\* the inner for loop: Text parts are pushed to parts, image URLs to image_urls
array_pass(list, i, parts, image_urls) ==
    IF i > Len(list) THEN [parts |-> parts, image_urls |-> image_urls]
    ELSE IF list[i].kind = "Text"
         THEN array_pass(list, i + 1, Append(parts, list[i].text), image_urls)
         ELSE array_pass(list, i + 1, parts, Append(image_urls, list[i].url))

\* image_urls declared inside the loop: the URLs of earlier messages are lost
flatten_content_fresh_urls(content, image_urls) ==
    CASE content.kind = "Text" ->
            [content |-> content.text, image_urls |-> image_urls]
      [] content.kind = "Array" ->
            LET p == array_pass(content.list, 1, <<>>, <<>>)
            IN  [content |-> join(p.parts, "\n\n"), image_urls |-> p.image_urls]
      [] content.kind = "ToolResults" ->
            [content |-> "", image_urls |-> image_urls]

\* the match on message.content: the flattened content and the image_urls after it
flatten_content(content, image_urls) ==
    CASE content.kind = "Text" ->
            [content |-> content.text, image_urls |-> image_urls]
      [] content.kind = "Array" ->
            LET p == array_pass(content.list, 1, <<>>, image_urls)
            IN  [content |-> join(p.parts, "\n\n"), image_urls |-> p.image_urls]
      [] content.kind = "ToolResults" ->
            [content |-> "", image_urls |-> image_urls]

\* the Assistant arm pasted from the User arm
push_message_user_for_assistant(role, content, format) ==
    CASE role = "System" ->
            format.system_pre_message \o content \o format.system_post_message
      [] role = "Assistant" ->
            format.user_pre_message \o content \o format.user_post_message
      [] role = "User" ->
            format.user_pre_message \o content \o format.user_post_message

\* the match on role: what is pushed to prompt for one message
push_message(role, content, format) ==
    CASE role = "System" ->
            format.system_pre_message \o content \o format.system_post_message
      [] role = "Assistant" ->
            format.assistant_pre_message \o content \o format.assistant_post_message
      [] role = "User" ->
            format.user_pre_message \o content \o format.user_post_message

RECURSIVE message_pass(_, _, _, _, _)
\* the outer for loop
message_pass(messages, format, i, prompt, image_urls) ==
    IF i > Len(messages) THEN [prompt |-> prompt, image_urls |-> image_urls]
    ELSE LET c == flatten_content(messages[i].content, image_urls)
         IN  message_pass(messages, format, i + 1,
                          prompt \o push_message(messages[i].role, c.content, format),
                          c.image_urls)

generate_prompt(messages, format) ==
    LET st == message_pass(messages, format, 1, format.begin, <<>>)
    IN  IF st.image_urls # <<>>
        THEN Bail("The model does not support images: ", st.image_urls)
        ELSE Ok(st.prompt \o format.end)

(***************************************************************************)
(* smart_prompt_format.                                                    *)
(***************************************************************************)
\* str::contains with a &str pattern: case-sensitive substring containment
contains(s, p) ==
    \E i \in 1..(Len(s) - Len(p) + 1) : SubSeq(s, i, i + Len(p) - 1) = p

\* the claude rule tried first
smart_prompt_format_claude_first(model_name) ==
    IF contains(model_name, "claude")
    THEN ANTHROPIC_PROMPT_FORMAT
    ELSE IF contains(model_name, "llama3") \/ contains(model_name, "llama-3")
    THEN LLAMA3_PROMPT_FORMAT
    ELSE IF \/ contains(model_name, "llama2")
            \/ contains(model_name, "llama-2")
            \/ contains(model_name, "mistral")
            \/ contains(model_name, "mixtral")
    THEN MISTRAL_PROMPT_FORMAT
    ELSE IF contains(model_name, "phi3") \/ contains(model_name, "phi-3")
    THEN PHI3_PROMPT_FORMAT
    ELSE IF contains(model_name, "command-r")
    THEN COMMAND_R_PROMPT_FORMAT
    ELSE IF contains(model_name, "qwen")
    THEN QWEN_PROMPT_FORMAT
    ELSE GENERIC_PROMPT_FORMAT

smart_prompt_format(model_name) ==
    IF contains(model_name, "llama3") \/ contains(model_name, "llama-3")
    THEN LLAMA3_PROMPT_FORMAT
    ELSE IF \/ contains(model_name, "llama2")
            \/ contains(model_name, "llama-2")
            \/ contains(model_name, "mistral")
            \/ contains(model_name, "mixtral")
    THEN MISTRAL_PROMPT_FORMAT
    ELSE IF contains(model_name, "phi3") \/ contains(model_name, "phi-3")
    THEN PHI3_PROMPT_FORMAT
    ELSE IF contains(model_name, "command-r")
    THEN COMMAND_R_PROMPT_FORMAT
    ELSE IF contains(model_name, "qwen")
    THEN QWEN_PROMPT_FORMAT
    ELSE IF contains(model_name, "claude")
    THEN ANTHROPIC_PROMPT_FORMAT
    ELSE GENERIC_PROMPT_FORMAT

(***************************************************************************)
(* serde_json::Value as straico.rs reads and builds it.                    *)
(***************************************************************************)
JNull == [t |-> "null"]

JStr(s) == [t |-> "str", s |-> s]

JNum(n) == [t |-> "num", n |-> n]

JArr(a) == [t |-> "arr", a |-> a]

JObj(o) == [t |-> "obj", o |-> o]

EmptyMap == [k \in {} |-> JNull]

\* Value's Index<&str>: Null unless an object that holds the key
index_key(v, k) == IF v.t = "obj" /\ k \in DOMAIN v.o THEN v.o[k] ELSE JNull

\* Value's Index<usize>: Null unless an array that long
index_idx(v, i) == IF v.t = "arr" /\ (i + 1) \in DOMAIN v.a THEN v.a[i + 1] ELSE JNull

\* Value::as_str
as_str(v) == IF v.t = "str" THEN Some(v.s) ELSE NoneV

\* Value's Display (to_string): the JSON text of the value.  Scalars only: the
\* ids of Bodies are scalars, and their strings hold nothing JSON escapes.
to_string(v) ==
    CASE v.t = "null" -> "null"
      [] v.t = "num" -> ToString(v.n)
      [] v.t = "str" -> "\"" \o v.s \o "\""

(***************************************************************************)
(* straico.rs: the adapter.                                                *)
(***************************************************************************)
API_BASE == "https://api.straico.com/v1"

\* config_get_fn!(api_key, get_api_key): the configured credential, or an error
get_api_key(self_) ==
    IF self_.api_key.some THEN Ok(self_.api_key.v) ELSE Bail("Miss 'api_key'", <<>>)

\* Result::ok
ok(r) == IF r.ok THEN Some(r.value) ELSE NoneV

\* RequestData::new
RequestData_new(url, body) == [url |-> url, body |-> body, bearer |-> NoneV]

\* RequestData::bearer_auth
bearer_auth(request_data, api_key) == [request_data EXCEPT !.bearer = Some(api_key)]

\* temperature, top_p, functions and stream are destructured and dropped
straico_build_chat_completions_body(data, model) ==
    LET prompt == generate_prompt(data.messages, smart_prompt_format(model))
    IN  IF ~prompt.ok THEN prompt
        ELSE Ok(JObj([message |-> JStr(prompt.value),
                      models |-> JArr(<<JStr(model)>>)]))

\* get_api_key()? instead of get_api_key().ok(): a missing credential is fatal
prepare_chat_completions_key_required(self_, data) ==
    LET api_key == get_api_key(self_)
        url == API_BASE \o "/prompt/completion"
        body == straico_build_chat_completions_body(data, self_.model)
    IN  IF ~api_key.ok THEN api_key
        ELSE IF ~body.ok THEN body
        ELSE Ok(bearer_auth(RequestData_new(url, body.value), api_key.value))

prepare_chat_completions(self_, data) ==
    LET api_key == ok(get_api_key(self_))
        url == API_BASE \o "/prompt/completion"
        body == straico_build_chat_completions_body(data, self_.model)
    IN  IF ~body.ok THEN body
        ELSE LET request_data == RequestData_new(url, body.value)
             IN  Ok(IF api_key.some THEN bearer_auth(request_data, api_key.v)
                    ELSE request_data)

\* as_str().unwrap_or_default() instead of ok_or_else: a missing text is ""
straico_extract_chat_completions_default_text(data, model) ==
    LET model_data ==
            index_key(index_key(index_key(index_key(data, "data"), "completions"),
                                model), "completion")
        text ==
            as_str(index_key(index_key(index_idx(index_key(model_data, "choices"), 0),
                                       "message"), "content"))
        id == index_key(model_data, "id")
    IN  Ok([text |-> IF text.some THEN text.v ELSE "",
            tool_calls |-> <<>>,
            id |-> Some(to_string(id)),
            input_tokens |-> NoneV,
            output_tokens |-> NoneV])

straico_extract_chat_completions(data, model) ==
    LET model_data ==
            index_key(index_key(index_key(index_key(data, "data"), "completions"),
                                model), "completion")
        text ==
            as_str(index_key(index_key(index_idx(index_key(model_data, "choices"), 0),
                                       "message"), "content"))
        id == index_key(model_data, "id")
    IN  IF ~text.some THEN Bail("Invalid response data: ", data)
        ELSE Ok([text |-> text.v,
                 tool_calls |-> <<>>,
                 id |-> Some(to_string(id)),
                 input_tokens |-> NoneV,
                 output_tokens |-> NoneV])

\* StatusCode::is_success
is_success(status) == status >= 200 /\ status <= 299

\* catch_error: the typed API error of a response that did not succeed
catch_error(data, status) ==
    IF is_success(status) THEN Ok(<<>>)
    ELSE Bail("ApiError", [status |-> status, data |-> data])

\* the status check left out
chat_completions_tail_unchecked(status, data, model) ==
    [result |-> straico_extract_chat_completions(data, model),
     ran |-> <<"straico_extract_chat_completions">>]

\* straico_chat_completions after its last await: the result, and the routines run
chat_completions_tail(status, data, model) ==
    LET checked == IF ~is_success(status) THEN <<"catch_error">> ELSE <<>>
    IN  IF ~is_success(status) /\ ~catch_error(data, status).ok
        THEN [result |-> catch_error(data, status), ran |-> checked]
        ELSE [result |-> straico_extract_chat_completions(data, model),
              ran |-> Append(checked, "straico_extract_chat_completions")]

\* noop_embeddings, noop_rerank: the slot of an operation the provider lacks
noop(operation) ==
    Bail("CapabilityUnsupported", [operation |-> operation, provider |-> "Straico"])

(***************************************************************************)
(* Inputs.                                                                 *)
(***************************************************************************)
\* content items (a text, a tool-results block, a part; an empty part list
\* counts as one) in an enumerated conversation
MaxItems == 2

\* fragments concatenated into an enumerated model name
MaxFrags == 2

Texts == {"Hi", "ok"}

Urls == {"http://x/1.png", "data:image/png;base64,AA"}

Parts == {TextPart(t) : t \in Texts} \cup {ImageUrlPart(u) : u \in Urls}

ContentsOfSize(n) ==
    IF n = 1
    THEN {TextContent(t) : t \in Texts} \cup {ToolResultsContent}
         \cup {ArrayContent(l) : l \in [1..0 -> Parts] \cup [1..1 -> Parts]}
    ELSE {ArrayContent(l) : l \in [1..n -> Parts]}

MessagesOfSize(n) == {Message(r, c) : r \in MessageRole, c \in ContentsOfSize(n)}

RECURSIVE ConversationsOfSize(_)
ConversationsOfSize(n) ==
    IF n = 0 THEN {<<>>}
    ELSE UNION {{<<m>> \o c : m \in MessagesOfSize(k), c \in ConversationsOfSize(n - k)} :
                k \in 1..n}

\* the conversation of test_generate_prompt_with_alternating_messages
ScenarioA ==
    <<Message("User", TextContent("Hello, how are you?")),
      Message("Assistant",
              TextContent("I'm doing well, thank you! How can I assist you today?")),
      Message("User", TextContent("Can you explain quantum computing?"))>>

\* the conversation of test_generate_prompt_with_anthropic_format
ScenarioB ==
    <<Message("User", TextContent("What's the capital of France?")),
      Message("Assistant", TextContent("The capital of France is Paris.")),
      Message("User", TextContent("And what's the capital of Italy?"))>>

MixedConversation ==
    <<Message("System", TextContent("Be brief.")),
      Message("User", ArrayContent(<<TextPart("Look:"), ImageUrlPart("http://x/2.png"),
                                     TextPart("and"), TextPart("this")>>)),
      Message("Assistant", ToolResultsContent),
      Message("User", ArrayContent(<<ImageUrlPart("http://x/1.png"), TextPart("again")>>))>>

PartsConversation ==
    <<Message("System", ArrayContent(<<TextPart("one"), TextPart("two"), TextPart("three")>>)),
      Message("Assistant", ToolResultsContent),
      Message("User", ArrayContent(<<>>))>>

ExampleConversations == {ScenarioA, ScenarioB, MixedConversation, PartsConversation}

Conversations ==
    ExampleConversations \cup UNION {ConversationsOfSize(n) : n \in 0..MaxItems}

Fragments ==
    {"llama3", "llama-3", "llama2", "llama-2", "mistral", "mixtral", "phi3", "phi-3",
     "command-r", "qwen", "claude", "Claude", "llama", "phi", "command", "-", "3", "2",
     "r", "gpt"}

RECURSIVE NamesOfFrags(_)
NamesOfFrags(n) ==
    IF n = 0 THEN {""} ELSE {f \o s : f \in Fragments, s \in NamesOfFrags(n - 1)}

ExampleNames == {"llama-3-claude-tuned", "Claude", "CLAUDE-3", "Mixtral-8x7B", "qwen2-phi-3"}

ModelNames == ExampleNames \cup UNION {NamesOfFrags(n) : n \in 0..MaxFrags}

\* the models and credentials of the configured clients
ClientModels == {"anthropic/claude-3-haiku", "meta/llama-3-claude-tuned", "openai/gpt-4o"}

ApiKeys == {NoneV, Some("sk-1")}

ClientConversations ==
    ExampleConversations \cup UNION {ConversationsOfSize(n) : n \in 0..1}

ChatCompletionsData ==
    [messages : ClientConversations,
     temperature : {NoneV, Some(7)},
     top_p : {NoneV},
     functions : {NoneV, Some(<<"get_weather">>)},
     stream : BOOLEAN]

\* what the transport can answer
Statuses == {200, 204, 401, 500}

TransportErrors ==
    {Bail("error sending request", "connect"), Bail("error sending request", "timeout")}

DecodeError == Bail("error decoding response body", <<>>)

Absent == [t |-> "absent"]

WithId(id, o) == IF id = Absent THEN o ELSE [id |-> id] @@ o

Choice(content) ==
    JObj([message |-> IF content = Absent THEN JObj(EmptyMap)
                      ELSE JObj([content |-> content])])

ChoiceLists ==
    {<<>>} \cup {<<Choice(c)>> : c \in {Absent, JNull, JNum(0), JStr(""), JStr("Paris")}}
    \cup {<<Choice(JStr("Paris")), Choice(JStr("Rome"))>>,
          <<Choice(JNull), Choice(JStr("Rome"))>>}

CompletionBody(key, id, choices) ==
    JObj([data |->
        JObj([completions |->
            JObj(key :> JObj([completion |->
                JObj(WithId(id, [choices |-> JArr(choices)]))]))])])

Bodies ==
    {CompletionBody(k, id, ch) :
        k \in ClientModels, id \in {Absent, JNull, JStr("cmpl-1"), JNum(7)},
        ch \in ChoiceLists}
    \cup {JNull, JStr("Paris"), JArr(<<>>), JObj(EmptyMap), JObj([data |-> JNull]),
          JObj([data |-> JObj([completions |-> JArr(<<>>)])]),
          JObj([error |-> JObj([message |-> JStr("invalid key")])]),
          JObj([choices |-> JArr(<<Choice(JStr("Paris"))>>)])}

(***************************************************************************)
(* The state machine: a caller that invokes one operation at a time.       *)
(* pc is the position of the call in progress, res what the transport has  *)
(* answered it so far (a failure, or a status and then the JSON value),    *)
(* calls the collaborators and routines it has run, sink the events it     *)
(* has fed the SseHandler.                                                 *)
(***************************************************************************)
Init ==
    /\ pc = "idle"
    /\ op = "none"
    /\ args = <<>>
    /\ result = NoneV
    /\ res = NoneV
    /\ calls = <<>>
    /\ sink = <<>>

GeneratePrompt ==
    /\ pc = "idle"
    /\ \E messages \in Conversations, format \in Catalog :
        /\ args' = [messages |-> messages, format |-> format]
        /\ result' = generate_prompt(messages, format)
    /\ op' = "generate_prompt"
    /\ pc' = "done"
    /\ UNCHANGED <<res, calls, sink>>

SmartPromptFormat ==
    /\ pc = "idle"
    /\ \E model_name \in ModelNames :
        /\ args' = [model_name |-> model_name]
        /\ result' = smart_prompt_format(model_name)
    /\ op' = "smart_prompt_format"
    /\ pc' = "done"
    /\ UNCHANGED <<res, calls, sink>>

PrepareChatCompletions ==
    /\ pc = "idle"
    /\ \E model \in ClientModels, api_key \in ApiKeys, data \in ChatCompletionsData :
        /\ args' = [self_ |-> [model |-> model, api_key |-> api_key], data |-> data]
        /\ result' = prepare_chat_completions([model |-> model, api_key |-> api_key], data)
    /\ op' = "prepare_chat_completions"
    /\ pc' = "done"
    /\ UNCHANGED <<res, calls, sink>>

\* straico_chat_completions is entered: builder.send() is awaited next
ChatCompletions ==
    /\ pc = "idle"
    /\ \E model \in ClientModels : args' = [model |-> model]
    /\ op' = "straico_chat_completions"
    /\ pc' = "send"
    /\ UNCHANGED <<result, res, calls, sink>>

\* a failed send is tried again
Send_retrying ==
    /\ pc = "send"
    /\ calls' = Append(calls, "send")
    /\ \/ \E e \in TransportErrors :
            /\ res' = [failure |-> e]
            /\ result' = IF Len(calls) = 0 THEN result ELSE e
            /\ pc' = IF Len(calls) = 0 THEN "send" ELSE "done"
       \/ \E status \in Statuses :
            /\ res' = [status |-> status]
            /\ pc' = "json"
            /\ UNCHANGED result
    /\ UNCHANGED <<op, args, sink>>

\* builder.send().await?
Send ==
    /\ pc = "send"
    /\ calls' = Append(calls, "send")
    /\ \/ \E e \in TransportErrors :
            /\ res' = [failure |-> e]
            /\ result' = e
            /\ pc' = "done"
       \/ \E status \in Statuses :
            /\ res' = [status |-> status]
            /\ pc' = "json"
            /\ UNCHANGED result
    /\ UNCHANGED <<op, args, sink>>

\* res.json().await? and the code after it
Json ==
    /\ pc = "json"
    /\ \/ /\ res' = [status |-> res.status, failure |-> DecodeError]
          /\ result' = DecodeError
          /\ calls' = Append(calls, "json")
       \/ \E data \in Bodies :
            LET t == chat_completions_tail(res.status, data, args.model)
            IN  /\ res' = [status |-> res.status, data |-> data]
                /\ result' = t.result
                /\ calls' = Append(calls, "json") \o t.ran
    /\ pc' = "done"
    /\ UNCHANGED <<op, args, sink>>

\* the streaming slot wired to the blocking call
ChatCompletionsStreaming_blocking ==
    /\ pc = "idle"
    /\ \E model \in ClientModels : args' = [model |-> model]
    /\ op' = "straico_chat_completions_streaming"
    /\ pc' = "send"
    /\ UNCHANGED <<result, res, calls, sink>>

\* straico_chat_completions_streaming: builder and handler are not used
ChatCompletionsStreaming ==
    /\ pc = "idle"
    /\ \E model \in ClientModels : args' = [model |-> model]
    /\ op' = "straico_chat_completions_streaming"
    /\ result' = Bail("Straico does not support streaming", <<>>)
    /\ pc' = "done"
    /\ UNCHANGED <<res, calls, sink>>

Embeddings ==
    /\ pc = "idle"
    /\ \E model \in ClientModels : args' = [model |-> model]
    /\ op' = "embeddings"
    /\ result' = noop("embeddings")
    /\ pc' = "done"
    /\ UNCHANGED <<res, calls, sink>>

Rerank ==
    /\ pc = "idle"
    /\ \E model \in ClientModels : args' = [model |-> model]
    /\ op' = "rerank"
    /\ result' = noop("rerank")
    /\ pc' = "done"
    /\ UNCHANGED <<res, calls, sink>>

\* the call has returned; the caller is free to make the next one
Return ==
    /\ pc = "done"
    /\ pc' = "idle"
    /\ op' = "none"
    /\ args' = <<>>
    /\ result' = NoneV
    /\ res' = NoneV
    /\ calls' = <<>>
    /\ sink' = <<>>

Next ==
    \/ GeneratePrompt
    \/ SmartPromptFormat
    \/ PrepareChatCompletions
    \/ ChatCompletions
    \/ Send
    \/ Json
    \/ ChatCompletionsStreaming
    \/ Embeddings
    \/ Rerank
    \/ Return

Spec == Init /\ [][Next]_vars

(***************************************************************************)
(* What the properties speak of, stated apart from the code's passes.      *)
(***************************************************************************)
Rendered == pc = "done" /\ op = "generate_prompt"

IsImage(part) == part.kind = "ImageUrl"

IsText(part) == part.kind = "Text"

HasImage(messages) ==
    \E i \in 1..Len(messages) :
        /\ messages[i].content.kind = "Array"
        /\ \E j \in 1..Len(messages[i].content.list) : IsImage(messages[i].content.list[j])

RECURSIVE BlankLineJoined(_)
BlankLineJoined(parts) ==
    IF Len(parts) = 0 THEN ""
    ELSE IF Len(parts) = 1 THEN parts[1].text
    ELSE BlankLineJoined(SubSeq(parts, 1, Len(parts) - 1)) \o "\n\n" \o parts[Len(parts)].text

Flat(content) ==
    IF content.kind = "Text" THEN content.text
    ELSE IF content.kind = "Array" THEN BlankLineJoined(SelectSeq(content.list, IsText))
    ELSE ""

Pre(role, format) ==
    IF role = "System" THEN format.system_pre_message
    ELSE IF role = "User" THEN format.user_pre_message
    ELSE format.assistant_pre_message

Post(role, format) ==
    IF role = "System" THEN format.system_post_message
    ELSE IF role = "User" THEN format.user_post_message
    ELSE format.assistant_post_message

RECURSIVE Turns(_, _)
Turns(messages, format) ==
    IF Len(messages) = 0 THEN ""
    ELSE LET last == messages[Len(messages)]
         IN  Turns(SubSeq(messages, 1, Len(messages) - 1), format)
             \o Pre(last.role, format) \o Flat(last.content) \o Post(last.role, format)

RECURSIVE UrlsOf(_)
UrlsOf(messages) ==
    IF Len(messages) = 0 THEN <<>>
    ELSE LET last == messages[Len(messages)].content
             images == IF last.kind = "Array" THEN SelectSeq(last.list, IsImage) ELSE <<>>
         IN  UrlsOf(SubSeq(messages, 1, Len(messages) - 1))
             \o [j \in 1..Len(images) |-> images[j].url]

\* p occurs in s: s is some prefix, then p, then the rest
Occurs(p, s) ==
    \E n \in 0..Len(s) :
        /\ n + Len(p) <= Len(s)
        /\ SubSeq(s, 1, n) \o p \o SubSeq(s, n + Len(p) + 1, Len(s)) = s

Rules ==
    <<[patterns |-> {"llama3", "llama-3"}, format |-> LLAMA3_PROMPT_FORMAT],
      [patterns |-> {"llama2", "llama-2", "mistral", "mixtral"},
       format |-> MISTRAL_PROMPT_FORMAT],
      [patterns |-> {"phi3", "phi-3"}, format |-> PHI3_PROMPT_FORMAT],
      [patterns |-> {"command-r"}, format |-> COMMAND_R_PROMPT_FORMAT],
      [patterns |-> {"qwen"}, format |-> QWEN_PROMPT_FORMAT],
      [patterns |-> {"claude"}, format |-> ANTHROPIC_PROMPT_FORMAT]>>

RuleMatches(k, name) == \E p \in Rules[k].patterns : Occurs(p, name)

FirstRuleFormat(name) ==
    IF \E k \in 1..Len(Rules) : RuleMatches(k, name)
    THEN Rules[CHOOSE k \in 1..Len(Rules) :
                   /\ RuleMatches(k, name)
                   /\ \A j \in 1..(k - 1) : ~RuleMatches(j, name)].format
    ELSE GENERIC_PROMPT_FORMAT

Key(k) == [key |-> k]

Idx(i) == [idx |-> i]

RECURSIVE At(_, _)
\* the value at a path of keys and indexes of a JSON value, Absent when there is none
At(v, path) ==
    IF Len(path) = 0 THEN v
    ELSE LET step == Head(path)
         IN  IF "idx" \in DOMAIN step
             THEN IF v.t = "arr" /\ step.idx < Len(v.a)
                  THEN At(v.a[step.idx + 1], Tail(path))
                  ELSE Absent
             ELSE IF v.t = "obj" /\ step.key \in DOMAIN v.o
                  THEN At(v.o[step.key], Tail(path))
                  ELSE Absent

TextAt(data, model) ==
    At(data, <<Key("data"), Key("completions"), Key(model), Key("completion"),
               Key("choices"), Idx(0), Key("message"), Key("content")>>)

IdAt(data, model) ==
    At(data, <<Key("data"), Key("completions"), Key(model), Key("completion"), Key("id")>>)

Slots == {"straico_chat_completions_streaming", "embeddings", "rerank"}

Chatting == op = "straico_chat_completions"

\* the call is over and the transport has delivered a status and a JSON value
Answered == Chatting /\ pc = "done" /\ "data" \in DOMAIN res

Sends == Len(SelectSeq(calls, LAMBDA c : c = "send"))

(***************************************************************************)
(* The properties.                                                         *)
(***************************************************************************)
\* C1: for a conversation with no image reference and any catalog format,
\* generate_prompt returns begin, then per message in order pre + flat(content)
\* + post of its role, then end; flat is the text, the Text parts joined by two
\* newlines, or "" for tool results.  Scenario A on the generic format gives the
\* string of test_generate_prompt_with_alternating_messages.
C1_TextRendering ==
    (Rendered /\ ~HasImage(args.messages)) =>
        /\ result = Ok(args.format.begin \o Turns(args.messages, args.format)
                       \o args.format.end)
        /\ (args.messages = ScenarioA /\ args.format = GENERIC_PROMPT_FORMAT) =>
                result.value =
                    "### Instruction:\nHello, how are you?\n### Response:\nI'm doing well, thank you! How can I assist you today?\n### Instruction:\nCan you explain quantum computing?\n### Response:\n"

C1_Witness ==
    /\ Rendered
    /\ args.messages = PartsConversation
    /\ args.format = LLAMA3_PROMPT_FORMAT
    /\ result.ok
    /\ Occurs("one\n\ntwo\n\nthree<|eot_id|>", result.value)

\* C2: scenario B on the Human/Assistant format gives the string of
\* test_generate_prompt_with_anthropic_format: two newlines before every turn,
\* the first included, and "Assistant: " with its space at the end.
C2_AnthropicScenario ==
    (Rendered /\ args.messages = ScenarioB /\ args.format = ANTHROPIC_PROMPT_FORMAT) =>
        result =
            Ok("\n\nHuman: What's the capital of France?\n\nAssistant: The capital of France is Paris.\n\nHuman: And what's the capital of Italy?\n\nAssistant: ")

\* C3: for a conversation with an image reference anywhere and any catalog
\* format, generate_prompt fails, returns no prompt, and the error carries every
\* image URL of the conversation in message order, then part order.
C3_ImagesRejected ==
    (Rendered /\ HasImage(args.messages)) =>
        /\ ~result.ok
        /\ "value" \notin DOMAIN result
        /\ result.arg = UrlsOf(args.messages)

C3_Witness ==
    /\ Rendered
    /\ args.messages = MixedConversation
    /\ ~result.ok
    /\ result.arg = <<"http://x/2.png", "http://x/1.png">>

\* C4: smart_prompt_format returns, for every name, one catalog format: that of
\* the first rule, in the fixed order, with a pattern that is a case-sensitive
\* substring of the name, and the generic format when there is none.
C4_FirstRuleWins ==
    (pc = "done" /\ op = "smart_prompt_format") =>
        /\ result \in Catalog
        /\ result = FirstRuleFormat(args.model_name)
        /\ args.model_name = "llama-3-claude-tuned" => result = LLAMA3_PROMPT_FORMAT
        /\ args.model_name = "Claude" => result = GENERIC_PROMPT_FORMAT

C4_Witness ==
    /\ pc = "done"
    /\ op = "smart_prompt_format"
    /\ RuleMatches(1, args.model_name)
    /\ RuleMatches(6, args.model_name)
    /\ result = LLAMA3_PROMPT_FORMAT

\* C5: the streaming, embeddings and rerank slots of the Straico client fail
\* with an error naming the operation and the provider; the call is over at
\* once, nothing is sent through the transport, nothing reaches the sink.
C5_UnsupportedSlots ==
    (op \in Slots) =>
        /\ pc = "done"
        /\ ~result.ok
        /\ calls = <<>>
        /\ sink = <<>>
        /\ IF op = "straico_chat_completions_streaming"
           THEN Occurs("Straico", result.msg) /\ Occurs("streaming", result.msg)
           ELSE /\ result.msg = "CapabilityUnsupported"
                /\ result.arg = [operation |-> op, provider |-> "Straico"]

C5_Witness ==
    /\ op = "straico_chat_completions_streaming"
    /\ pc = "done"
    /\ ~result.ok

\* C6: a success status whose body has no string at
\* data.completions[model].completion.choices[0].message.content makes
\* straico_chat_completions fail with the invalid-response error; no output,
\* and no output with an empty text.
C6_MalformedResponse ==
    (Answered /\ is_success(res.status) /\ TextAt(res.data, args.model).t # "str") =>
        /\ ~result.ok
        /\ result = Bail("Invalid response data: ", res.data)

C6_Witness ==
    /\ Answered
    /\ res.status = 200
    /\ args.model = "openai/gpt-4o"
    /\ res.data = CompletionBody("anthropic/claude-3-haiku", JStr("cmpl-1"),
                                 <<Choice(JStr("Paris"))>>)
    /\ ~result.ok

\* C7: a non-success status, whatever the body, never gives an output: status
\* and body go to catch_error and the call fails with the error it produces,
\* also when the body holds a completion text at the known path.
C7_FailureStatus ==
    (Answered /\ ~is_success(res.status)) =>
        /\ ~result.ok
        /\ result = catch_error(res.data, res.status)
        /\ calls = <<"send", "json", "catch_error">>

C7_Witness ==
    /\ Answered
    /\ res.status = 500
    /\ TextAt(res.data, args.model) = JStr("Paris")
    /\ ~result.ok

\* C8: prepare_chat_completions does no I/O and returns a request exactly when
\* the conversation renders, with or without a credential: the request targets
\* the completion endpoint, its body is {"message": prompt, "models": [model]}
\* whatever temperature, top_p, functions and stream are, and a bearer token
\* is attached exactly when a credential is configured; with an image reference
\* it fails with the renderer's error.
C8_Prepare ==
    (pc = "done" /\ op = "prepare_chat_completions") =>
        LET prompt == generate_prompt(args.data.messages,
                                      smart_prompt_format(args.self_.model))
        IN  /\ calls = <<>>
            /\ result.ok <=> ~HasImage(args.data.messages)
            /\ result.ok <=> prompt.ok
            /\ result.ok =>
                /\ result.value.url = "https://api.straico.com/v1/prompt/completion"
                /\ result.value.body =
                        JObj([message |-> JStr(prompt.value),
                              models |-> JArr(<<JStr(args.self_.model)>>)])
                /\ result.value.bearer = args.self_.api_key
            /\ ~result.ok => result = prompt

C8_Witness ==
    /\ pc = "done"
    /\ op = "prepare_chat_completions"
    /\ args.self_.api_key = NoneV
    /\ args.data.messages = ScenarioB
    /\ args.data.stream
    /\ result.ok
    /\ result.value.bearer = NoneV

\* C9: a call of straico_chat_completions makes one transport round trip and
\* ends with an output or an error, never sending again; a failure the
\* transport reports is the error returned, and neither catch_error nor the
\* extraction runs.
C9_OneRoundTrip ==
    Chatting =>
        /\ Sends <= 1
        /\ pc = "done" =>
            /\ Sends = 1
            /\ "ok" \in DOMAIN result
        /\ (pc = "done" /\ "failure" \in DOMAIN res) =>
            /\ result = res.failure
            /\ \A i \in 1..Len(calls) : calls[i] \in {"send", "json"}

C9_Witness ==
    /\ Chatting
    /\ pc = "done"
    /\ "failure" \in DOMAIN res
    /\ res.failure = Bail("error sending request", "timeout")
    /\ calls = <<"send">>

\* C10: a success status with a string at the content path gives an output
\* whose text is that string, whose id is the string at
\* data.completions[model].completion.id (absent when the response has none),
\* with no tool calls and no token counts.
C10_Output ==
    (Answered /\ is_success(res.status) /\ TextAt(res.data, args.model).t = "str") =>
        /\ result.ok
        /\ result.value.text = TextAt(res.data, args.model).s
        /\ result.value.tool_calls = <<>>
        /\ result.value.input_tokens = NoneV
        /\ result.value.output_tokens = NoneV
        /\ IdAt(res.data, args.model).t = "str" =>
                result.value.id = Some(IdAt(res.data, args.model).s)
        /\ IdAt(res.data, args.model) = Absent => result.value.id = NoneV

====
